---------------------------- MODULE Spec2Model ----------------------------
(***************************************************************************)
(* Model of the Quantum32 Hybrid Sampler PC client                         *)
(* (src/Quantum32 Hybrid Sampler/pc_client_maxcut.py): the session that    *)
(* opens the serial transport, sends the three handshake commands, and     *)
(* then runs the reader loop that reassembles per-tick worker lines,       *)
(* scores every complete tick against the Max-Cut ring and keeps the best  *)
(* result.                                                                 *)
(*                                                                         *)
(* One action stands for one pass of the reader loop (main, lines 244-327) *)
(* on one kind of inbound line; the data of a pass is computed by the      *)
(* operator Ingest, written after lines 280-322.                           *)
(*                                                                         *)
(* Abstractions, all stated here:                                          *)
(*  - a stored sample keeps only bmask: loss, noise and seed are parsed    *)
(*    and stored (line 283) but never read again (line 295, *_rest);       *)
(*  - time is counted in whole seconds since the last received line        *)
(*    (since_rx = time.time() - last_rx_time at the check of line 325):    *)
(*    an empty readline takes the serial timeout of 1 s (line 206), a      *)
(*    received line re-arms the deadline (line 248); since_line is the     *)
(*    same count for the wire: the seconds since readline last returned    *)
(*    any bytes, a line that strip() empties included (line 245);          *)
(*  - best_score starts at BEST_SCORE_INIT, which stands for -1e18 (TLC    *)
(*    integers are 32 bits wide): a value below every score;               *)
(*  - KeyboardInterrupt is delivered while the loop waits in readline;    *)
(*    SpecAsync also delivers it between the statements of lines 283-313.  *)
(***************************************************************************)
EXTENDS Integers, Sequences, FiniteSets, TLC

VARIABLES
    NUM_SLAVES,      \* line 80 / 171: workers per tick
    BITS_PER_SLAVE,  \* line 81 / 172: bits taken from each bmask
    PARAM_T,         \* line 84 / 174, in thousandths; lines 174-181 leave the
    PARAM_B,         \* line 85 / 175   typed values in these seven globals,
    PARAM_KP,        \* line 86 / 176   and the commands carry them as lines
    PARAM_M,         \* line 87 / 177   184-191 clamp them
    BATCH_K,         \* line 90 / 179
    BATCH_STRIDE,    \* line 91 / 180
    BATCH_BURN,      \* line 92 / 181
    session,         \* where main() is: "Idle", "Handshaking", "Streaming",
                     \* "Draining", "Closed", "Failed", "Crashed"
    ser,             \* the serial transport: "none", "open", "closed"
    sent,            \* commands written so far (lines 219-224), as records
    cause,           \* what ended the session (the message printed)
    since_rx,        \* seconds since last_rx_time (lines 230, 248, 325)
    since_line,      \* seconds since readline last returned any bytes (line 245)
    batch_meta,      \* line 231 / 251: "None" or "meta"
    tick_buffer,     \* line 239: tick -> (slaveIndex -> bmask)
    all_scores,      \* line 234
    all_samples,     \* line 235: records tick, score, bits
    best_history,    \* line 236: pairs <<tick, best_score so far>>
    best_score,      \* line 226
    best_bits,       \* line 227
    best_tick,       \* line 228
    titles,          \* wikipedia_processor.py line 545 / ejemplo_uso.py line 36
    existing,        \* the titles for which page.exists() is true (line 187)
    caller,          \* "main" (wikipedia_processor.py) or "ejemplo_simple"
    wiki_pc,         \* where the caller is
    result,          \* what process_articles returned (data in the callers)
    invoked,         \* the functions called on the result so far
    guard_fired      \* the caller's "if not data" branch was taken

config == <<NUM_SLAVES, BITS_PER_SLAVE, PARAM_T, PARAM_B, PARAM_KP, PARAM_M,
            BATCH_K, BATCH_STRIDE, BATCH_BURN>>
control == <<session, ser, sent, cause, since_rx, since_line, batch_meta>>
data == <<tick_buffer, all_scores, all_samples, best_history,
          best_score, best_bits, best_tick>>
wiki == <<titles, existing, caller, wiki_pc, result, invoked, guard_fired>>
vars == <<config, control, data, wiki>>

\* The Wikipedia pipeline is a separate program: it is not running
WikiIdle ==
    /\ titles = <<>>
    /\ existing = {}
    /\ caller = "none"
    /\ wiki_pc = "idle"
    /\ result = <<>>
    /\ invoked = {}
    /\ guard_fired = FALSE

---------------------------------------------------------------------------
(* Bounds of the model *)

MaxSlaves == 2     \* NUM_SLAVES is drawn from 1..MaxSlaves
MaxBits == 2       \* BITS_PER_SLAVE is drawn from 1..MaxBits
MaxTick == 1       \* ticks of the mixed stream: 0..MaxTick
MaxSidx == 2       \* slave indices of the mixed stream: 0..MaxSidx
MaxBmask == 1      \* bmasks of the mixed stream: 0..MaxBmask
MaxHist == 2       \* no Data line is offered once this many samples are scored
MaxGap == 1        \* longest silence (s) of the mixed and the flood stream
FloodExtra == 3    \* the flood stream offers ticks 0..CLEANUP_CAP+FloodExtra
MaxOrderlyTick == 3 \* the orderly stream offers ticks 0..MaxOrderlyTick
MaxExtraParts == 1 \* an "O," line has at most MIN_PARTS+MaxExtraParts parts
MaxRoundBmask == 3 \* the one-Round stream offers bmask 0..MaxRoundBmask
MaxRingSlaves == 5 \* the ring stream runs with NUM_SLAVES in 1..MaxRingSlaves
MaxRingWeight == 2 \* ring weights 1..MaxRingWeight are compared
MaxDefaultBmask == 5 \* the default-configuration stream offers bmask 0..MaxDefaultBmask
InputExcess == 1   \* a typed value lies up to InputExcess outside its range
TypedMillis == 4   \* a typed T has up to TypedMillis thousandths after 0.20

(* Program constants *)

RING_WEIGHT == 1            \* line 96 (1.0)
READ_TIMEOUT_S == 25        \* line 99
SERIAL_TIMEOUT_S == 1       \* line 206: Serial(..., timeout=1)
CLEANUP_CAP == 50           \* line 320: len(tick_buffer) > 50
CLEANUP_KEEP == 20          \* line 321: [:-20]
BEST_SCORE_INIT == -1000000000   \* line 226: -1e18
None == -1                  \* lines 227-228: best_bits, best_tick = None
MIN_PARTS == 7              \* line 267: len(parts) < 7
DEFAULT_NUM_SLAVES == 4     \* line 80
DEFAULT_BITS_PER_SLAVE == 4 \* line 81
DEFAULT_PARAM_T == 200      \* line 84: 0.20, in thousandths
DEFAULT_PARAM_B == 5        \* line 85
DEFAULT_PARAM_KP == 60      \* line 86
DEFAULT_PARAM_M == 1        \* line 87
DEFAULT_BATCH_K == 300      \* line 90
DEFAULT_BATCH_STRIDE == 1   \* line 91
DEFAULT_BATCH_BURN == 20    \* line 92
T_MIN == 0                  \* line 184: 0.0
T_MAX == 1000               \* line 184: 1.0, in thousandths
B_MIN == -127               \* line 185
B_MAX == 127                \* line 185
KP_MIN == 0                 \* line 186
KP_MAX == 255               \* line 186
M_MIN == 0                  \* line 187
M_MAX == 255                \* line 187
K_MIN == 1                  \* line 189
K_MAX == 2000               \* line 189
STRIDE_MIN == 1             \* line 190
STRIDE_MAX == 1000          \* line 190
BURN_MIN == 0               \* line 191
BURN_MAX == 5000            \* line 191

---------------------------------------------------------------------------
(* Helpers, lines 106-131 *)

Min2(a, b) == IF b < a THEN b ELSE a
Max2(a, b) == IF b > a THEN b ELSE a

\* mutant of clamp_int: the lower bound is not applied
clamp_int_no_floor(x, lo, hi) == Min2(hi, x)

\* line 106-107: max(lo, min(hi, int(x))); x is an int already
clamp_int(x, lo, hi) == Max2(lo, Min2(hi, x))

\* line 109-110, on thousandths
clamp_float(x, lo, hi) == Max2(lo, Min2(hi, x))

\* line 222, {PARAM_T:.2f}: the hundredths nearest to t thousandths; on a tie
\* the binary value of the float decides, which the model does not hold, so
\* both neighbours are possible
format_2f(t) ==
    {h \in {t \div 10, (t \div 10) + 1} : 10 * h - t <= 5 /\ t - 10 * h <= 5}

RECURSIVE Pow2(_)
Pow2(i) == IF i <= 0 THEN 1 ELSE 2 * Pow2(i - 1)

\* mutant of bits_from_bmask: most significant bit first
bits_from_bmask_msb(bmask, width) ==
    [k \in 1..width |-> (bmask \div Pow2(width - k)) % 2]

\* line 112-113: [(bmask >> i) & 1 for i in range(width)]
bits_from_bmask(bmask, width) ==
    [k \in 1..width |-> (bmask \div Pow2(k - 1)) % 2]

\* mutant of make_ring_edges: the edge that closes the ring is left out
make_ring_edges_open(n, w) ==
    [k \in 1..(n - 1) |-> <<k - 1, k, w>>]

\* line 122-123: [(i, (i + 1) % n, float(w)) for i in range(n)]
make_ring_edges(n, w) ==
    [k \in 1..n |-> <<k - 1, k % n, w>>]

\* line 125-131: both branches build the ring
build_edges(n_bits) == make_ring_edges(n_bits, RING_WEIGHT)

\* mutant of EdgeCut: an edge counts when either end is set
EdgeCut_or(bits, e) == bits[e[1] + 1] = 1 \/ bits[e[2] + 1] = 1

\* line 118: the test on one edge; bits is 0-indexed in the source
EdgeCut(bits, e) == bits[e[1] + 1] # bits[e[2] + 1]

RECURSIVE ScoreFrom(_, _, _)
ScoreFrom(bits, es, k) ==
    IF k > Len(es) THEN 0
    ELSE (IF EdgeCut(bits, es[k]) THEN es[k][3] ELSE 0) + ScoreFrom(bits, es, k + 1)

\* line 115-120
maxcut_score(bits, es) == ScoreFrom(bits, es, 1)

\* line 193-194
n_bits == NUM_SLAVES * BITS_PER_SLAVE
edges == build_edges(n_bits)

\* line 300: "".join(str(int(x)) for x in bits.tolist())
bitstr_of(bits) == [k \in 1..Len(bits) |-> IF bits[k] = 1 THEN "1" ELSE "0"]

---------------------------------------------------------------------------
(* The data of one pass of the reader loop on a parsed Data line,          *)
(* lines 280-322                                                           *)

EmptyRound == [s \in {} |-> 0]

\* The data the loop carries from one pass to the next
DataState ==
    [tick_buffer |-> tick_buffer, all_scores |-> all_scores,
     all_samples |-> all_samples, best_history |-> best_history,
     best_score |-> best_score, best_bits |-> best_bits, best_tick |-> best_tick]

\* mutant of StoreSample: the first sample of a slave for a tick is kept
StoreSample_first_wins(buf, tick, sidx, bmask) ==
    LET round == IF tick \in DOMAIN buf THEN buf[tick] ELSE EmptyRound
        round1 == [s \in (DOMAIN round) \cup {sidx} |->
                      IF s \in DOMAIN round THEN round[s] ELSE bmask]
    IN [t \in (DOMAIN buf) \cup {tick} |-> IF t = tick THEN round1 ELSE buf[t]]

\* lines 280-283: create the Round if the tick is new, then store at sidx
StoreSample(buf, tick, sidx, bmask) ==
    LET round == IF tick \in DOMAIN buf THEN buf[tick] ELSE EmptyRound
        round1 == [s \in (DOMAIN round) \cup {sidx} |->
                      IF s = sidx THEN bmask ELSE round[s]]
    IN [t \in (DOMAIN buf) \cup {tick} |-> IF t = tick THEN round1 ELSE buf[t]]

\* mutant of RoundReady: > instead of >=
RoundReady_strict(round) == Cardinality(DOMAIN round) > NUM_SLAVES

\* line 289: len(tick_buffer[tick]) >= NUM_SLAVES
RoundReady(round) == Cardinality(DOMAIN round) >= NUM_SLAVES

\* lines 291-296: one bit array per slave, in index order, stopping at the
\* first index the Round does not hold
RECURSIVE VecFrom(_, _)
VecFrom(round, s) ==
    IF s >= NUM_SLAVES \/ s \notin DOMAIN round THEN <<>>
    ELSE <<bits_from_bmask(round[s], BITS_PER_SLAVE)>> \o VecFrom(round, s + 1)

BuildVec(round) == VecFrom(round, 0)

\* line 298: np.concatenate(vec)
RECURSIVE Concatenate(_)
Concatenate(vec) ==
    IF vec = <<>> THEN <<>> ELSE Head(vec) \o Concatenate(Tail(vec))

\* mutant of Better: >= instead of >
Better_or_equal(score, best) == score >= best

\* line 307: score > best_score
Better(score, best) == score > best

\* mutant of AppendSample: the history is kept sorted by tick
AppendSample_sorted(samples, sample) ==
    LET k == Cardinality({i \in 1..Len(samples) : samples[i].tick <= sample.tick})
    IN SubSeq(samples, 1, k) \o <<sample>> \o SubSeq(samples, k + 1, Len(samples))

\* line 304: all_samples.append({'tick': tick, 'score': score, 'bits': bitstr})
AppendSample(samples, sample) == Append(samples, sample)

\* mutant of ScoreRound: the trace records the best score held before the
\* sample was compared
ScoreRound_stale_trace(st, tick, bits) ==
    LET score == maxcut_score(bits, edges)
        bitstr == bitstr_of(bits)
        improved == Better(score, st.best_score)
        best1 == IF improved THEN score ELSE st.best_score
    IN [st EXCEPT
          !.all_scores = Append(@, score),
          !.all_samples = AppendSample(@, [tick |-> tick, score |-> score, bits |-> bitstr]),
          !.best_score = best1,
          !.best_bits = IF improved THEN bits ELSE @,
          !.best_tick = IF improved THEN tick ELSE @,
          !.best_history = Append(@, <<tick, st.best_score>>)]

\* lines 298-313: score the assembled vector, record it, update the best
ScoreRound(st, tick, bits) ==
    LET score == maxcut_score(bits, edges)
        bitstr == bitstr_of(bits)
        improved == Better(score, st.best_score)
        best1 == IF improved THEN score ELSE st.best_score
    IN [st EXCEPT
          !.all_scores = Append(@, score),
          !.all_samples = AppendSample(@, [tick |-> tick, score |-> score, bits |-> bitstr]),
          !.best_score = best1,
          !.best_bits = IF improved THEN bits ELSE @,
          !.best_tick = IF improved THEN tick ELSE @,
          !.best_history = Append(@, <<tick, best1>>)]

\* line 321: sorted(tick_buffer.keys())[:-20], all keys but the 20 highest
OldTicks(buf) ==
    {t \in DOMAIN buf : Cardinality({u \in DOMAIN buf : u > t}) >= CLEANUP_KEEP}

\* mutant of Cleanup: prunes as soon as more than CLEANUP_KEEP ticks are held
Cleanup_early(buf) ==
    IF Cardinality(DOMAIN buf) > CLEANUP_KEEP
    THEN [t \in (DOMAIN buf) \ OldTicks(buf) |-> buf[t]]
    ELSE buf

\* lines 320-322
Cleanup(buf) ==
    IF Cardinality(DOMAIN buf) > CLEANUP_CAP
    THEN [t \in (DOMAIN buf) \ OldTicks(buf) |-> buf[t]]
    ELSE buf

\* lines 289-322: the block that runs when the Round has NUM_SLAVES entries;
\* the cleanup of lines 319-322 is inside this block
ReadyBlock(st, tick) ==
    LET vec == BuildVec(st.tick_buffer[tick])
        st2 == IF Len(vec) = NUM_SLAVES
               THEN ScoreRound(st, tick, Concatenate(vec))
               ELSE st
    IN [st2 EXCEPT !.tick_buffer = Cleanup(@)]

\* lines 280-322
Ingest(st, tick, sidx, bmask) ==
    LET st1 == [st EXCEPT !.tick_buffer = StoreSample(@, tick, sidx, bmask)]
    IN IF RoundReady(st1.tick_buffer[tick]) THEN ReadyBlock(st1, tick) ELSE st1

SetData(st) ==
    /\ tick_buffer' = st.tick_buffer
    /\ all_scores' = st.all_scores
    /\ all_samples' = st.all_samples
    /\ best_history' = st.best_history
    /\ best_score' = st.best_score
    /\ best_bits' = st.best_bits
    /\ best_tick' = st.best_tick

---------------------------------------------------------------------------
(* The session, lines 204-335 *)

\* mutant of Commands: the parameters are sent before the hello
Commands_param_first == <<"@PARAM", "@HELLO", "@GET">>

Commands == <<"@HELLO", "@PARAM", "@GET">>

\* lines 219-224: the k-th command, with the values of lines 184-191; n is
\* T as {PARAM_T:.2f} prints it, in hundredths
CommandLine(k, n) ==
    CASE k = 1 -> [cmd |-> Commands[1]]
      [] k = 2 -> [cmd |-> Commands[2], N |-> n,
                   B |-> clamp_int(PARAM_B, B_MIN, B_MAX),
                   K |-> clamp_int(PARAM_KP, KP_MIN, KP_MAX),
                   M |-> clamp_int(PARAM_M, M_MIN, M_MAX)]
      [] k = 3 -> [cmd |-> Commands[3],
                   K |-> clamp_int(BATCH_K, K_MIN, K_MAX),
                   STRIDE |-> clamp_int(BATCH_STRIDE, STRIDE_MIN, STRIDE_MAX),
                   BURN |-> clamp_int(BATCH_BURN, BURN_MIN, BURN_MAX)]

\* lines 84-92: the seven values when every prompt is left at its default
DefaultParams ==
    /\ PARAM_T = DEFAULT_PARAM_T
    /\ PARAM_B = DEFAULT_PARAM_B
    /\ PARAM_KP = DEFAULT_PARAM_KP
    /\ PARAM_M = DEFAULT_PARAM_M
    /\ BATCH_K = DEFAULT_BATCH_K
    /\ BATCH_STRIDE = DEFAULT_BATCH_STRIDE
    /\ BATCH_BURN = DEFAULT_BATCH_BURN

Init ==
    /\ WikiIdle
    /\ NUM_SLAVES \in 1..MaxSlaves
    /\ BITS_PER_SLAVE \in 1..MaxBits
    /\ DefaultParams
    /\ session = "Idle"
    /\ ser = "none"
    /\ sent = <<>>
    /\ cause = "none"
    /\ since_rx = 0
    /\ since_line = 0
    /\ batch_meta = "None"
    /\ tick_buffer = [t \in {} |-> EmptyRound]
    /\ all_scores = <<>>
    /\ all_samples = <<>>
    /\ best_history = <<>>
    /\ best_score = BEST_SCORE_INIT
    /\ best_bits = <<None>>
    /\ best_tick = None

\* lines 205-208: the port opens
OpenOk ==
    /\ session = "Idle"
    /\ session' = "Handshaking"
    /\ ser' = "open"
    /\ UNCHANGED <<wiki, config, sent, cause, since_rx, since_line, batch_meta, data>>

\* lines 209-213: the port does not open; main prints the error and returns
OpenFail ==
    /\ session = "Idle"
    /\ session' = "Failed"
    /\ cause' = "open_error"
    /\ UNCHANGED <<wiki, config, ser, sent, since_rx, since_line, batch_meta, data>>

\* lines 215-224 and 226-241: one command is written; after @GET the loop
\* is entered with last_rx_time = now
Send ==
    /\ session = "Handshaking"
    /\ Len(sent) < Len(Commands)
    /\ \E n \in format_2f(clamp_float(PARAM_T, T_MIN, T_MAX)) :
          sent' = Append(sent, CommandLine(Len(sent) + 1, n))
    /\ session' = IF Len(sent') = Len(Commands) THEN "Streaming" ELSE "Handshaking"
    /\ since_rx' = 0
    /\ since_line' = 0
    /\ UNCHANGED <<wiki, config, ser, cause, batch_meta, data>>

\* line 216: ser.write raises outside any try block; nothing catches it
SendFail ==
    /\ session = "Handshaking"
    /\ Len(sent) < Len(Commands)
    /\ session' = "Crashed"
    /\ cause' = "write_error"
    /\ UNCHANGED <<wiki, config, ser, sent, since_rx, since_line, batch_meta, data>>

\* line 325: (time.time() - last_rx_time) > READ_TIMEOUT_S
TimedOut(silence) == silence > READ_TIMEOUT_S

\* lines 245-248, 250-253: a @BATCH line; continue
ReadMeta ==
    /\ session = "Streaming"
    /\ since_rx' = 0
    /\ since_line' = 0
    /\ batch_meta' = "meta"
    /\ UNCHANGED <<wiki, config, session, ser, sent, cause, data>>

\* mutant of ReadDone: continue instead of break
ReadDone_continue ==
    /\ session = "Streaming"
    /\ since_rx' = 0
    /\ since_line' = 0
    /\ UNCHANGED <<wiki, config, session, ser, sent, cause, batch_meta, data>>

\* lines 255-257: a @DONE line; break
ReadDone ==
    /\ session = "Streaming"
    /\ since_rx' = 0
    /\ since_line' = 0
    /\ session' = "Draining"
    /\ cause' = "done"
    /\ UNCHANGED <<wiki, config, ser, sent, batch_meta, data>>

\* lines 259-263, 325: any other line that does not start with "O,"
ReadInfo ==
    /\ session = "Streaming"
    /\ since_rx' = 0
    /\ since_line' = 0
    /\ UNCHANGED <<wiki, config, session, ser, sent, cause, batch_meta, data>>

\* line 250, 255, 260, 263: str.startswith on a line held as its characters
StartsWith(line, prefix) ==
    /\ Len(line) >= Len(prefix)
    /\ SubSeq(line, 1, Len(prefix)) = prefix

AT_BATCH == <<"@", "B", "A", "T", "C", "H">>
AT_DONE == <<"@", "D", "O", "N", "E">>
O_COMMA == <<"O", ",">>
AT == <<"@">>

\* lines 250-261: what the loop prints for a non-empty line before the
\* Data branch of line 263: the tag and the text after it, or nothing
Printed(line) ==
    IF StartsWith(line, AT_BATCH) THEN <<"[META]", "batch_meta">>
    ELSE IF StartsWith(line, AT_DONE) THEN <<"[DONE]", line>>
    ELSE IF ~StartsWith(line, O_COMMA) /\ ~StartsWith(line, AT) THEN <<"[MSG]", line>>
    ELSE <<>>

\* The lines the device may send that are neither @BATCH, @DONE nor Data:
\* boot banners, replies to @HELLO and @PARAM, markers the client does not know
TextLines ==
    {<<"Q", "3", "2">>, <<"o", "k">>, <<"O", "K">>, <<"#">>,
     <<"@">>, <<"@", "O", "K">>, <<"@", "E", "R", "R">>, <<"@", "D", "O">>}

\* lines 245-263, 325: such a line; none of the branches of lines 250, 255
\* and 263 is taken
ReadText(line) ==
    /\ session = "Streaming"
    /\ line # <<>>
    /\ ~StartsWith(line, AT_BATCH)
    /\ ~StartsWith(line, AT_DONE)
    /\ ~StartsWith(line, O_COMMA)
    /\ since_rx' = 0
    /\ since_line' = 0
    /\ UNCHANGED <<wiki, config, session, ser, sent, cause, batch_meta, data>>

\* lines 263-278: an "O," line with fewer than 7 parts or a field that does
\* not parse; continue
ReadBadData ==
    /\ session = "Streaming"
    /\ since_rx' = 0
    /\ since_line' = 0
    /\ UNCHANGED <<wiki, config, session, ser, sent, cause, batch_meta, data>>

\* lines 289-298: with NUM_SLAVES = 0 every Round passes the test of line
\* 289, vec stays empty, len(vec) == NUM_SLAVES holds and np.concatenate([])
\* raises ValueError
ConcatenateRaises == NUM_SLAVES = 0

\* lines 263-298, 331-335: a Data line is stored, np.concatenate raises, the
\* finally block closes the port and the exception leaves main
ReadDataRaises(tick, sidx, bmask) ==
    /\ session = "Streaming"
    /\ ConcatenateRaises
    /\ tick_buffer' = StoreSample(tick_buffer, tick, sidx, bmask)
    /\ session' = "Crashed"
    /\ ser' = "closed"
    /\ cause' = "value_error"
    /\ since_rx' = 0
    /\ since_line' = 0
    /\ UNCHANGED <<wiki, config, sent, batch_meta, all_scores, all_samples,
                   best_history, best_score, best_bits, best_tick>>

\* lines 263-322, 325: a Data line O,tick,sidx,bmask,loss,noise,seed
ReadData(tick, sidx, bmask) ==
    /\ session = "Streaming"
    /\ ~ConcatenateRaises
    /\ since_rx' = 0
    /\ since_line' = 0
    /\ LET st == Ingest(DataState, tick, sidx, bmask) IN SetData(st)
    /\ UNCHANGED <<wiki, config, session, ser, sent, cause, batch_meta>>

\* An "O," line as line 266 splits it: nparts parts, the tag included;
\* bad is the index in parts of a part that is not a number (0: none);
\* tick, sidx and bmask are what parts[1..3] say when they are numbers
OLine(nparts, bad, tick, sidx, bmask) ==
    [nparts |-> nparts, bad |-> bad, tick |-> tick, sidx |-> sidx, bmask |-> bmask]

\* lines 267-278: the line passes the length test and parts[1..6] parse
Accepted(line) ==
    /\ ~(line.nparts < MIN_PARTS)
    /\ line.bad \notin 1..(MIN_PARTS - 1)

\* lines 263-322: one pass of the loop on an "O," line
ReadO(line) ==
    IF Accepted(line)
    THEN ReadData(line.tick, line.sidx, line.bmask)
    ELSE ReadBadData

\* mutant of ReadEmpty: last_rx_time is set on every pass of the loop
ReadEmpty_rearm ==
    /\ session = "Streaming"
    /\ since_rx' = 0
    /\ since_line' = 0
    /\ UNCHANGED <<wiki, config, session, ser, sent, cause, batch_meta, data>>

\* lines 245-247, 324-327: readline returns nothing after the serial
\* timeout; the loop stops once the silence exceeds READ_TIMEOUT_S
ReadEmpty ==
    /\ session = "Streaming"
    /\ since_rx' = since_rx + SERIAL_TIMEOUT_S
    /\ since_line' = since_line + SERIAL_TIMEOUT_S
    /\ IF TimedOut(since_rx')
       THEN session' = "Draining" /\ cause' = "timeout"
       ELSE UNCHANGED <<session, cause>>
    /\ UNCHANGED <<wiki, config, ser, sent, batch_meta, data>>

\* lines 245-247, 324-327: a line of white space only arrives after
\* `elapsed` seconds of waiting; strip() leaves "", so the pass is that of
\* an empty read
ReadBlank(elapsed) ==
    /\ session = "Streaming"
    /\ since_rx' = since_rx + elapsed
    /\ since_line' = 0
    /\ IF TimedOut(since_rx')
       THEN session' = "Draining" /\ cause' = "timeout"
       ELSE UNCHANGED <<session, cause>>
    /\ UNCHANGED <<wiki, config, ser, sent, batch_meta, data>>

\* lines 329-330: Ctrl+C while the loop waits for a line
Interrupt ==
    /\ session = "Streaming"
    /\ session' = "Draining"
    /\ cause' = "interrupt"
    /\ UNCHANGED <<wiki, config, ser, sent, since_rx, since_line, batch_meta, data>>

\* lines 245, 331-335: readline raises; the finally block closes the port
\* and the exception leaves main
ReadError ==
    /\ session = "Streaming"
    /\ session' = "Crashed"
    /\ ser' = "closed"
    /\ cause' = "read_error"
    /\ UNCHANGED <<wiki, config, sent, since_rx, since_line, batch_meta, data>>

\* lines 331-352: the finally block closes the port, then the report
Close ==
    /\ session = "Draining"
    /\ session' = "Closed"
    /\ ser' = "closed"
    /\ UNCHANGED <<wiki, config, sent, cause, since_rx, since_line, batch_meta, data>>

Terminal == session \in {"Closed", "Failed", "Crashed"}

\* the reader loop was entered and has been left
LoopLeft == session \in {"Draining", "Closed", "Crashed"} /\ Len(sent) = Len(Commands)

---------------------------------------------------------------------------
(* The mixed stream: every Data line over a small range of ticks, slave    *)
(* indices (in range and out of range) and bmasks, in any order, with      *)
(* silences of at most MaxGap seconds.                                     *)

Ticks == 0..MaxTick
Sidxs == 0..MaxSidx
Bmasks == 0..MaxBmask

Next ==
    \/ OpenOk
    \/ OpenFail
    \/ Send
    \/ SendFail
    \/ ReadMeta
    \/ ReadDone
    \/ ReadInfo
    \/ ReadBadData
    \/ \E t \in Ticks, s \in Sidxs, b \in Bmasks :
          Len(all_samples) < MaxHist /\ ReadData(t, s, b)
    \/ (since_rx < MaxGap /\ ReadEmpty)
    \/ Interrupt
    \/ ReadError
    \/ Close

Spec == Init /\ [][Next]_vars

---------------------------------------------------------------------------
(* The flood stream: slave 0 reports every tick once, in ascending order;  *)
(* slave 1 stays silent until the buffer is nearly full and then reports   *)
(* for the oldest or the newest buffered tick.                             *)

FloodTicks == 0..(CLEANUP_CAP + FloodExtra)

Newest(buf) == CHOOSE t \in DOMAIN buf : \A u \in DOMAIN buf : u <= t
Oldest(buf) == CHOOSE t \in DOMAIN buf : \A u \in DOMAIN buf : t <= u

\* the next tick slave 0 reports
FloodFresh ==
    {IF DOMAIN tick_buffer = {} THEN 0 ELSE Newest(tick_buffer) + 1} \cap FloodTicks

\* the ticks slave 1 may report for
FloodLate ==
    IF Cardinality(DOMAIN tick_buffer) >= CLEANUP_CAP - 1
    THEN {Oldest(tick_buffer), Newest(tick_buffer)}
    ELSE {}

NextFlood ==
    \/ OpenOk
    \/ OpenFail
    \/ Send
    \/ SendFail
    \/ ReadMeta
    \/ ReadDone
    \/ ReadInfo
    \/ ReadBadData
    \/ \E t \in FloodFresh : Len(all_samples) < MaxHist /\ ReadData(t, 0, 0)
    \/ \E t \in FloodLate : Len(all_samples) < MaxHist /\ ReadData(t, 1, 1)
    \/ (since_rx < MaxGap /\ ReadEmpty)
    \/ Interrupt
    \/ ReadError
    \/ Close

SpecFlood == Init /\ [][NextFlood]_vars

---------------------------------------------------------------------------
(* The orderly stream, what a Master that loses no line sends: ticks in    *)
(* ascending order, and within a tick every slave once, in index order,    *)
(* with any bmask.                                                         *)

OrderlyTicks == 0..MaxOrderlyTick

\* the <<tick, slave>> the Master reports next
OrderlyNext ==
    IF DOMAIN tick_buffer = {} THEN {<<0, 0>>}
    ELSE LET m == Newest(tick_buffer)
             k == Cardinality(DOMAIN tick_buffer[m])
         IN IF k < NUM_SLAVES THEN {<<m, k>>}
            ELSE {<<m + 1, 0>>} \cap (OrderlyTicks \X {0})

NextOrderly ==
    \/ OpenOk
    \/ OpenFail
    \/ Send
    \/ SendFail
    \/ ReadMeta
    \/ ReadDone
    \/ ReadInfo
    \/ ReadBadData
    \/ \E ts \in OrderlyNext, b \in Bmasks : ReadData(ts[1], ts[2], b)
    \/ (since_rx < MaxGap /\ ReadEmpty)
    \/ Interrupt
    \/ ReadError
    \/ Close

SpecOrderly == Init /\ [][NextOrderly]_vars

---------------------------------------------------------------------------
(* The quiet stream: lines of every kind for tick 0 only, blank lines      *)
(* included, with silences of any length.  FairQuiet adds what the serial timeout of line 206 and the *)
(* sequential control flow guarantee: a read on a silent port returns, so  *)
(* the loop reaches the check of line 325 again, and once the loop is left *)
(* the finally block of lines 331-335 runs.                                *)

\* the "O," lines of the quiet stream: one part too few up to MaxExtraParts
\* too many, at most one part that is not a number
QuietOLines ==
    {OLine(n, bad, 0, s, 0) : n \in (MIN_PARTS - 1)..(MIN_PARTS + MaxExtraParts),
                              bad \in 0..(MIN_PARTS + MaxExtraParts - 1), s \in 0..1}

NextQuiet ==
    \/ OpenOk
    \/ OpenFail
    \/ Send
    \/ SendFail
    \/ ReadMeta
    \/ ReadDone
    \/ ReadInfo
    \/ ReadBadData
    \/ \E s \in 0..1 : Len(all_samples) < MaxHist /\ ReadData(0, s, 0)
    \/ ReadEmpty
    \/ \E line \in QuietOLines : Len(all_samples) < MaxHist /\ ReadO(line)
    \/ \E line \in TextLines : ReadText(line)
    \/ \E elapsed \in 0..SERIAL_TIMEOUT_S : ReadBlank(elapsed)
    \/ Interrupt
    \/ ReadError
    \/ Close

SpecQuiet == Init /\ [][NextQuiet]_vars

FairQuiet == SpecQuiet /\ WF_vars(ReadEmpty) /\ WF_vars(Close)

---------------------------------------------------------------------------
(* Vocabulary of the properties *)

\* The Round holds a sample of every slave index in [0, NUM_SLAVES)
RoundFull(round) == \A w \in 0..(NUM_SLAVES - 1) : w \in DOMAIN round

\* The Round of tick t in buffer buf is complete
CompleteIn(buf, t) == t \in DOMAIN buf /\ RoundFull(buf[t])

\* The step appended exactly one sample, for tick t, at the end
AppendedFor(t) ==
    /\ Len(all_samples') = Len(all_samples) + 1
    /\ SubSeq(all_samples', 1, Len(all_samples)) = all_samples
    /\ all_samples'[Len(all_samples')].tick = t

\* tick t has an entry in the history
Scored(t) == \E i \in 1..Len(all_samples) : all_samples[i].tick = t

InRange(s) == s \in 0..(NUM_SLAVES - 1)

---------------------------------------------------------------------------
(* C1: an ingest appends a ScoredSample for its tick if and only if, once  *)
(* its sample is stored, the Round of the tick holds a sample of every     *)
(* slave index in [0, NUM_SLAVES); whatever the order of arrival, and a    *)
(* Round that misses an in-range slave is not scored.                      *)
C1_ScoredIffRoundFull ==
    [][\A t \in Ticks, s \in Sidxs, b \in Bmasks :
          LET round == StoreSample(tick_buffer, t, s, b)[t]
          IN \/ /\ AppendedFor(t) <=> RoundFull(round)
                /\ ~RoundFull(round) => all_samples' = all_samples
             \/ ~ReadData(t, s, b)]_vars

\* Two slaves: one tick was scored with its Round full, while another Round
\* that holds two entries, one of them out of range, was not scored
C1_Witness ==
    /\ NUM_SLAVES = 2
    /\ \E t \in DOMAIN tick_buffer : Scored(t) /\ RoundFull(tick_buffer[t])
    /\ \E u \in DOMAIN tick_buffer :
          /\ Cardinality(DOMAIN tick_buffer[u]) >= NUM_SLAVES
          /\ ~RoundFull(tick_buffer[u])
          /\ ~Scored(u)

(* C2: a ScoredSample is emitted once per Round: an ingest appends to the  *)
(* history only if the Round of its tick was incomplete before the ingest  *)
(* and complete after it.                                                  *)
C2_ScoredOncePerRound ==
    [][\A t \in Ticks, s \in Sidxs, b \in Bmasks :
          (ReadData(t, s, b) /\ all_samples' # all_samples) =>
             /\ ~CompleteIn(tick_buffer, t)
             /\ CompleteIn(StoreSample(tick_buffer, t, s, b), t)]_vars

(* C3: processing the same in-range Data line twice in succession leaves   *)
(* the Rounds, the history and the best result as processing it once.      *)
C3_IngestIdempotent ==
    session = "Streaming" =>
       \A t \in Ticks, s \in Sidxs, b \in Bmasks :
          InRange(s) =>
             LET once == Ingest(DataState, t, s, b)
                 twice == Ingest(once, t, s, b)
             IN /\ twice.tick_buffer = once.tick_buffer
                /\ twice.all_samples = once.all_samples
                /\ twice.best_score = once.best_score
                /\ twice.best_bits = once.best_bits
                /\ twice.best_tick = once.best_tick

(* C4: a Data line whose slave index is outside [0, NUM_SLAVES) is         *)
(* discarded: it creates no Round and changes no Round.                    *)
C4_OutOfRangeDiscarded ==
    [][\A t \in Ticks, s \in Sidxs, b \in Bmasks :
          (ReadData(t, s, b) /\ ~InRange(s)) => tick_buffer' = tick_buffer]_vars

(* C5: the cleanup runs after every ingest, so the tick buffer never      *)
(* holds more than CLEANUP_CAP Rounds, also when no tick ever completes.   *)
C5_BufferBounded == Cardinality(DOMAIN tick_buffer) <= CLEANUP_CAP

\* the k numerically highest members of S
Highest(S, k) == {t \in S : Cardinality({u \in S : u > t}) < k}

(* C6: when CLEANUP_CAP incomplete Rounds are buffered and an ingest       *)
(* creates one more incomplete Round, exactly the CLEANUP_KEEP highest     *)
(* ticks remain right after that ingest and nothing is added to the        *)
(* history.                                                                *)
C6_EvictsAtFiftyFirst ==
    [][\A t \in FloodTicks, s \in 0..1, b \in 0..1 :
          ( /\ session = "Streaming"
            /\ Cardinality(DOMAIN tick_buffer) = CLEANUP_CAP
            /\ t \notin DOMAIN tick_buffer
            /\ \A u \in DOMAIN tick_buffer : ~RoundFull(tick_buffer[u])
            /\ ~RoundFull(StoreSample(tick_buffer, t, s, b)[t])
            /\ ReadData(t, s, b) )
          => /\ DOMAIN tick_buffer' =
                  Highest((DOMAIN tick_buffer) \cup {t}, CLEANUP_KEEP)
             /\ all_samples' = all_samples]_vars

\* the index of the earliest sample whose score is the maximum of the history
EarliestMax ==
    CHOOSE i \in 1..Len(all_samples) :
       /\ \A j \in 1..Len(all_samples) : all_samples[j].score <= all_samples[i].score
       /\ \A j \in 1..(i - 1) : all_samples[j].score < all_samples[i].score

(* C7: the best result is the earliest sample of the history whose score   *)
(* is the maximum of the history (a later sample replaces it only with a   *)
(* strictly greater score); with an empty history there is no best result. *)
C7_BestIsEarliestMax ==
    IF all_samples = <<>>
    THEN best_score = BEST_SCORE_INIT /\ best_bits = <<None>> /\ best_tick = None
    ELSE /\ best_score = all_samples[EarliestMax].score
         /\ best_tick = all_samples[EarliestMax].tick
         /\ bitstr_of(best_bits) = all_samples[EarliestMax].bits

\* Four scores in the shape of 3, 5, 5, 2: the best is the first of the two
\* equal maxima, which belong to different ticks
C7_Witness ==
    /\ Len(all_samples) = 4
    /\ all_samples[1].score < all_samples[2].score
    /\ all_samples[2].score = all_samples[3].score
    /\ all_samples[4].score < all_samples[3].score
    /\ all_samples[2].tick # all_samples[3].tick
    /\ best_tick = all_samples[2].tick

(* C8: the history is append-only and in completion order: a step either   *)
(* leaves it as it is or is the ingest of a Data line after which the      *)
(* Round of its tick is complete, and then adds one sample, for that tick, *)
(* at the end; and the ingest on which a Round becomes complete adds its   *)
(* sample at the end in that very step.                                    *)
C8_HistoryAppendOnly ==
    [][/\ \/ all_samples' = all_samples
          \/ \E t \in Ticks :
                /\ AppendedFor(t)
                /\ \E s \in Sidxs, b \in Bmasks :
                      /\ CompleteIn(StoreSample(tick_buffer, t, s, b), t)
                      /\ ReadData(t, s, b)
       /\ \A t \in Ticks, s \in Sidxs, b \in Bmasks :
             ( /\ session = "Streaming"
               /\ ~CompleteIn(tick_buffer, t)
               /\ CompleteIn(StoreSample(tick_buffer, t, s, b), t)
               /\ ReadData(t, s, b) )
             => AppendedFor(t)]_vars

\* A higher tick completed first and precedes a lower tick in the history
C8_Witness ==
    \E i, j \in 1..Len(all_samples) :
       i < j /\ all_samples[i].tick > all_samples[j].tick

(* C9: a @DONE line ends the reader loop at once, whatever is buffered:    *)
(* the step leaves the loop without scoring, and once the loop is left no  *)
(* line is consumed and neither the Rounds nor the history change.         *)
C9_DoneEndsLoop ==
    [][/\ ReadDone => (session' # "Streaming" /\ data' = data)
       /\ LoopLeft =>
             /\ LoopLeft'
             /\ data' = data
             /\ since_rx' = since_rx
             /\ since_line' = since_line
             /\ batch_meta' = batch_meta]_vars

\* The session closed on @DONE with an incomplete Round that was not scored
C9_Witness ==
    /\ session = "Closed"
    /\ cause = "done"
    /\ \E t \in DOMAIN tick_buffer : ~RoundFull(tick_buffer[t]) /\ ~Scored(t)

(* C10, as claimed: every session that entered Streaming eventually        *)
(* reaches a terminal state, whatever the stream.                          *)
C10_AlwaysTerminates == (session = "Streaming") ~> Terminal

(* C10, amended: a session that entered Streaming reaches a terminal state *)
(* unless lines keep arriving for ever; a stream that falls silent ends.   *)
C10_TerminatesUnlessFed ==
    \/ []<><<session = "Streaming" /\ session' = "Streaming" /\ since_rx' = 0>>_vars
    \/ ((session = "Streaming") ~> Terminal)

\* The stream fell silent and the session closed on the inactivity timeout
C10_Witness ==
    session = "Closed" /\ cause = "timeout" /\ since_rx > READ_TIMEOUT_S

---------------------------------------------------------------------------
(* C11: a transport error (the port does not open, a write fails in the    *)
(* handshake, a read fails while streaming) never crashes the process: the *)
(* session ends in Failed with the cause recorded.                         *)
C11_TransportErrorEndsInFailed ==
    cause \in {"open_error", "write_error", "read_error"} => session = "Failed"

(* C12: once the port has been opened, every way into a terminal state     *)
(* has closed it.                                                          *)
C12_TerminalHasClosedPort ==
    (Terminal /\ ser # "none") => ser = "closed"

---------------------------------------------------------------------------
(* Cancellation inside the handling of a Data line.  CPython raises        *)
(* KeyboardInterrupt in the main thread between any two bytecodes, so      *)
(* Ctrl+C can also land after any statement of lines 283-313, not only     *)
(* while readline waits.                                                   *)

\* how many of the statements of lines 303-310 ran before the interrupt
ScoringPoints == 0..5

\* lines 303-310, cut after the first k of: all_scores.append,
\* all_samples.append, best_score =, best_bits =, best_tick =
ScoreRoundUpTo(st, tick, bits, k) ==
    LET score == maxcut_score(bits, edges)
        bitstr == bitstr_of(bits)
        improved == Better(score, st.best_score)
    IN [st EXCEPT
          !.all_scores = IF k >= 1 THEN Append(@, score) ELSE @,
          !.all_samples = IF k >= 2
                          THEN AppendSample(@, [tick |-> tick, score |-> score, bits |-> bitstr])
                          ELSE @,
          !.best_score = IF k >= 3 /\ improved THEN score ELSE @,
          !.best_bits = IF k >= 4 /\ improved THEN bits ELSE @,
          !.best_tick = IF k >= 5 /\ improved THEN tick ELSE @]

\* lines 263-310, 329-335: a Data line is stored, and Ctrl+C arrives before
\* line 313 has run; the except clause of line 329 ends the loop
ReadDataInterrupted(tick, sidx, bmask, k) ==
    /\ session = "Streaming"
    /\ since_rx' = 0
    /\ since_line' = 0
    /\ LET st1 == [DataState EXCEPT !.tick_buffer = StoreSample(@, tick, sidx, bmask)]
           vec == BuildVec(st1.tick_buffer[tick])
       IN IF RoundReady(st1.tick_buffer[tick]) /\ Len(vec) = NUM_SLAVES
          THEN SetData(ScoreRoundUpTo(st1, tick, Concatenate(vec), k))
          ELSE k = 0 /\ SetData(st1)
    /\ session' = "Draining"
    /\ cause' = "interrupt"
    /\ UNCHANGED <<wiki, config, ser, sent, batch_meta>>

\* the orderly stream, with Ctrl+C at any point
NextAsync ==
    \/ OpenOk
    \/ OpenFail
    \/ Send
    \/ SendFail
    \/ ReadMeta
    \/ ReadDone
    \/ ReadInfo
    \/ ReadBadData
    \/ \E ts \in OrderlyNext, b \in Bmasks : ReadData(ts[1], ts[2], b)
    \/ \E ts \in OrderlyNext, b \in Bmasks, k \in ScoringPoints :
          ReadDataInterrupted(ts[1], ts[2], b, k)
    \/ (since_rx < MaxGap /\ ReadEmpty)
    \/ Interrupt
    \/ ReadError
    \/ Close

SpecAsync == Init /\ [][NextAsync]_vars

\* the largest element of a non-empty sequence of scores
MaxOf(scores) ==
    CHOOSE m \in {scores[i] : i \in 1..Len(scores)} :
        \A i \in 1..Len(scores) : scores[i] <= m

(* C13: cancellation takes effect only between two reads of a line, so in  *)
(* the Closed state every sample that was scored has been applied to the   *)
(* best result and to the best-so-far trace: the score list, the sample    *)
(* list and the best-so-far list have equal length, and the best score is  *)
(* the maximum of the history.                                             *)
C13_ClosedIsConsistent ==
    session = "Closed" =>
        /\ Len(all_scores) = Len(all_samples)
        /\ Len(all_samples) = Len(best_history)
        /\ Len(all_scores) > 0 =>
              /\ best_score = MaxOf(all_scores)
              /\ best_history[Len(best_history)][2] = best_score

---------------------------------------------------------------------------
(* C14: the inactivity deadline is re-armed by every received line and by  *)
(* nothing else, so the silence the program measures is the silence on the *)
(* wire: the session stops with a timeout if and only if no line of any    *)
(* kind has been received for longer than READ_TIMEOUT_S.                  *)
C14_DeadlineFollowsLines ==
    /\ since_rx = since_line
    /\ cause = "timeout" => since_line > READ_TIMEOUT_S
    /\ session = "Streaming" => since_line <= READ_TIMEOUT_S

---------------------------------------------------------------------------
\* An "O," line that is not the tag followed by exactly six numbers
Malformed(line) == line.nparts # MIN_PARTS \/ line.bad \in 1..(line.nparts - 1)

(* C15: an "O," line that does not have exactly six fields after the tag   *)
(* (fewer or more), or has a field that is not a number, is discarded: no  *)
(* Round is created or changed, nothing is appended to the history, the    *)
(* best result is unchanged and the loop goes on.                          *)
C15_MalformedDiscarded ==
    [][\A line \in QuietOLines :
          (Malformed(line) /\ ReadO(line)) => (data' = data /\ session' = "Streaming")]_vars

---------------------------------------------------------------------------
(* C16: only Data lines change the sampling state.  A pass on a Meta line  *)
(* (@BATCH), an Info line, an Unparseable line (an "O," line that is not   *)
(* the tag and six numbers) or an empty line leaves the Rounds, the        *)
(* history and the best result unchanged and the session in Streaming; of  *)
(* these only the Meta line changes the batch metadata.                    *)
C16_OnlyDataLinesMutate ==
    [][/\ (\/ ReadMeta
           \/ ReadInfo
           \/ \E line \in QuietOLines : Malformed(line) /\ ReadO(line)
           \/ \E elapsed \in 0..SERIAL_TIMEOUT_S : ReadBlank(elapsed))
          => (data' = data /\ session' = "Streaming")
       /\ (\/ ReadInfo
           \/ \E line \in QuietOLines : Malformed(line) /\ ReadO(line)
           \/ \E elapsed \in 0..SERIAL_TIMEOUT_S : ReadBlank(elapsed))
          => batch_meta' = batch_meta]_vars

---------------------------------------------------------------------------
(* The one-Round stream: Data lines for tick 0 only, from the slaves in    *)
(* any order and any number of times, with bmasks that have bits set at    *)
(* and above position BITS_PER_SLAVE.                                      *)

RoundSidxs == 0..(MaxSlaves - 1)
RoundBmasks == 0..MaxRoundBmask

NextRound ==
    \/ OpenOk
    \/ OpenFail
    \/ Send
    \/ SendFail
    \/ ReadMeta
    \/ ReadDone
    \/ ReadInfo
    \/ ReadBadData
    \/ \E s \in RoundSidxs, b \in RoundBmasks :
          Len(all_samples) < MaxHist /\ ReadData(0, s, b)
    \/ (since_rx < MaxGap /\ ReadEmpty)
    \/ Interrupt
    \/ ReadError
    \/ Close

SpecRound == Init /\ [][NextRound]_vars

\* bit i of bmask
BitAt(bmask, i) == (bmask \div Pow2(i)) % 2

\* the vector the claim describes: element w*BITS_PER_SLAVE+i is bit i of
\* the bmask of worker w (positions are 1-based here)
ExpectedVec(round) ==
    [p \in 1..(NUM_SLAVES * BITS_PER_SLAVE) |->
        BitAt(round[(p - 1) \div BITS_PER_SLAVE], (p - 1) % BITS_PER_SLAVE)]

\* the Round with every bmask cut to its BITS_PER_SLAVE low bits
LowBits(round) == [w \in DOMAIN round |-> round[w] % Pow2(BITS_PER_SLAVE)]

(* C17: when a Round is scored, the vector has NUM_SLAVES*BITS_PER_SLAVE   *)
(* elements, element w*BITS_PER_SLAVE+i is bit i of the bmask the Round    *)
(* holds for worker w, whatever the order in which the lines arrived, and  *)
(* bits of a bmask at positions >= BITS_PER_SLAVE change neither the       *)
(* vector nor the score.                                                   *)
C17_VectorLayout ==
    [][\A s \in RoundSidxs, b \in RoundBmasks :
          (ReadData(0, s, b) /\ Len(all_samples') = Len(all_samples) + 1) =>
             LET round == tick_buffer'[0]
                 sample == all_samples'[Len(all_samples')]
             IN /\ Len(sample.bits) = NUM_SLAVES * BITS_PER_SLAVE
                /\ sample.bits = bitstr_of(ExpectedVec(round))
                /\ sample.bits = bitstr_of(ExpectedVec(LowBits(round)))
                /\ sample.score = maxcut_score(ExpectedVec(round), edges)
                /\ sample.score = maxcut_score(ExpectedVec(LowBits(round)), edges)]_vars

\* A Round of two workers with one bit each was scored from bmasks 2 and 3,
\* which differ from 0 and 1 only above the bit that is used
C17_Witness ==
    /\ NUM_SLAVES = 2 /\ BITS_PER_SLAVE = 1
    /\ 0 \in DOMAIN tick_buffer
    /\ tick_buffer[0] = (0 :> 2) @@ (1 :> 3)
    /\ Len(all_samples) = 1
    /\ all_samples[1].bits = <<"0", "1">>
    /\ all_samples[1].score = 2

---------------------------------------------------------------------------
(* The ring stream: rings of up to MaxRingSlaves*MaxBits nodes, and one    *)
(* Round, tick 0, reported in the Master's order with every bit pattern of *)
(* BITS_PER_SLAVE bits; every vector of n_bits bits is scored in some      *)
(* behaviour.                                                              *)

InitRing ==
    /\ WikiIdle
    /\ NUM_SLAVES \in 1..MaxRingSlaves
    /\ BITS_PER_SLAVE \in 1..MaxBits
    /\ DefaultParams
    /\ session = "Idle"
    /\ ser = "none"
    /\ sent = <<>>
    /\ cause = "none"
    /\ since_rx = 0
    /\ since_line = 0
    /\ batch_meta = "None"
    /\ tick_buffer = [t \in {} |-> EmptyRound]
    /\ all_scores = <<>>
    /\ all_samples = <<>>
    /\ best_history = <<>>
    /\ best_score = BEST_SCORE_INIT
    /\ best_bits = <<None>>
    /\ best_tick = None

RingBmasks == 0..(Pow2(BITS_PER_SLAVE) - 1)

NextRing ==
    \/ OpenOk
    \/ OpenFail
    \/ Send
    \/ SendFail
    \/ ReadMeta
    \/ ReadDone
    \/ ReadInfo
    \/ ReadBadData
    \/ \E ts \in OrderlyNext, b \in RingBmasks : ts[1] = 0 /\ ReadData(ts[1], ts[2], b)
    \/ (since_rx < MaxGap /\ ReadEmpty)
    \/ Interrupt
    \/ ReadError
    \/ Close

SpecRing == InitRing /\ [][NextRing]_vars

\* the bit vector a recorded bit string stands for
VecOfStr(bitstr) == [k \in 1..Len(bitstr) |-> IF bitstr[k] = "1" THEN 1 ELSE 0]

Complement(bits) == [k \in 1..Len(bits) |-> 1 - bits[k]]

(* C18: for every bit vector and every ring made by make_ring_edges, the   *)
(* vector and its bitwise complement have the same maxcut_score.           *)
C18_ComplementSameScore ==
    \A i \in 1..Len(all_samples) :
       LET bits == VecOfStr(all_samples[i].bits)
       IN /\ all_samples[i].score = maxcut_score(Complement(bits), edges)
          /\ \A w \in 1..MaxRingWeight :
                maxcut_score(bits, make_ring_edges(n_bits, w))
                   = maxcut_score(Complement(bits), make_ring_edges(n_bits, w))

\* A vector of a ring of five nodes that cuts four edges was scored
C18_Witness ==
    /\ n_bits = 5
    /\ Len(all_samples) = 1
    /\ all_samples[1].bits = <<"1", "1", "0", "1", "0">>
    /\ all_samples[1].score = 4

\* the bit string alternates strictly: 0101... or 1010...
Alternating(bitstr) == \A k \in 1..(Len(bitstr) - 1) : bitstr[k] # bitstr[k + 1]

---------------------------------------------------------------------------
(* The default configuration, lines 80-81 (4 slaves, 4 bits each, a ring   *)
(* of 16 nodes), with one Round, tick 0, reported in the Master's order.   *)

InitDefault ==
    /\ WikiIdle
    /\ NUM_SLAVES = DEFAULT_NUM_SLAVES
    /\ BITS_PER_SLAVE = DEFAULT_BITS_PER_SLAVE
    /\ DefaultParams
    /\ session = "Idle"
    /\ ser = "none"
    /\ sent = <<>>
    /\ cause = "none"
    /\ since_rx = 0
    /\ since_line = 0
    /\ batch_meta = "None"
    /\ tick_buffer = [t \in {} |-> EmptyRound]
    /\ all_scores = <<>>
    /\ all_samples = <<>>
    /\ best_history = <<>>
    /\ best_score = BEST_SCORE_INIT
    /\ best_bits = <<None>>
    /\ best_tick = None

DefaultBmasks == 0..MaxDefaultBmask

NextDefault ==
    \/ OpenOk
    \/ OpenFail
    \/ Send
    \/ SendFail
    \/ ReadMeta
    \/ ReadDone
    \/ ReadInfo
    \/ ReadBadData
    \/ \E ts \in OrderlyNext, b \in DefaultBmasks : ts[1] = 0 /\ ReadData(ts[1], ts[2], b)
    \/ (since_rx < MaxGap /\ ReadEmpty)
    \/ Interrupt
    \/ ReadError
    \/ Close

SpecDefault == InitDefault /\ [][NextDefault]_vars

\* the bmask a slave sends for the bits b0, b1, ... (b0 is the lowest bit)
RECURSIVE BmaskOfBits(_)
BmaskOfBits(bits) ==
    IF bits = <<>> THEN 0 ELSE Head(bits) + 2 * BmaskOfBits(Tail(bits))

\* the four tick-0 lines whose bmasks spell 1010 1010 1010 1010 have all
\* been read
AlternatingRoundFed ==
    /\ 0 \in DOMAIN tick_buffer
    /\ DOMAIN tick_buffer[0] = 0..3
    /\ \A w \in 0..3 : tick_buffer[0][w] = BmaskOfBits(<<1, 0, 1, 0>>)

(* C20: with 4 workers of 4 bits and the unit ring of 16 nodes, once the   *)
(* four tick-0 lines whose bmasks spell 1010101010101010 have been fed in  *)
(* order, the history holds exactly one entry, of score 16, and the best   *)
(* result is tick 0 with score 16.                                         *)
C20_AlternatingRoundScores16 ==
    (NUM_SLAVES = 4 /\ BITS_PER_SLAVE = 4 /\ AlternatingRoundFed) =>
        /\ all_scores = <<16>>
        /\ all_samples =
              <<[tick |-> 0, score |-> 16,
                 bits |-> <<"1", "0", "1", "0", "1", "0", "1", "0",
                            "1", "0", "1", "0", "1", "0", "1", "0">>]>>
        /\ best_history = <<<<0, 16>>>>
        /\ best_score = 16
        /\ best_tick = 0
        /\ best_bits = <<1, 0, 1, 0, 1, 0, 1, 0, 1, 0, 1, 0, 1, 0, 1, 0>>

\* The four lines were fed and the session closed on @DONE
C20_Witness ==
    /\ AlternatingRoundFed
    /\ Len(all_samples) = 1
    /\ best_score = 16
    /\ session = "Closed"
    /\ cause = "done"

---------------------------------------------------------------------------
(* The typed configuration: NUM_SLAVES and BITS_PER_SLAVE as int() returns *)
(* them at lines 171-172, zero and negative numbers included, and one      *)
(* Round, tick 0, reported in any order.                                   *)

InputSlaves == (-1)..MaxSlaves
InputBits == (-1)..MaxBits

InitInput ==
    /\ WikiIdle
    /\ NUM_SLAVES \in InputSlaves
    /\ BITS_PER_SLAVE \in InputBits
    /\ DefaultParams
    /\ session = "Idle"
    /\ ser = "none"
    /\ sent = <<>>
    /\ cause = "none"
    /\ since_rx = 0
    /\ since_line = 0
    /\ batch_meta = "None"
    /\ tick_buffer = [t \in {} |-> EmptyRound]
    /\ all_scores = <<>>
    /\ all_samples = <<>>
    /\ best_history = <<>>
    /\ best_score = BEST_SCORE_INIT
    /\ best_bits = <<None>>
    /\ best_tick = None

NextInput ==
    \/ OpenOk
    \/ OpenFail
    \/ Send
    \/ SendFail
    \/ ReadMeta
    \/ ReadDone
    \/ ReadInfo
    \/ ReadBadData
    \/ \E s \in RoundSidxs, b \in Bmasks :
          Len(all_samples) < MaxHist /\ ReadData(0, s, b)
    \/ \E s \in RoundSidxs, b \in Bmasks : ReadDataRaises(0, s, b)
    \/ (since_rx < MaxGap /\ ReadEmpty)
    \/ Interrupt
    \/ ReadError
    \/ Close

SpecInput == InitInput /\ [][NextInput]_vars

InvalidConfig == NUM_SLAVES < 1 \/ BITS_PER_SLAVE < 1

(* C21: with NUM_SLAVES < 1 or BITS_PER_SLAVE < 1 the session is rejected  *)
(* before it starts: the port is never opened, no command is sent and no   *)
(* line is read.                                                           *)
C21_InvalidConfigRejected ==
    InvalidConfig =>
        /\ ser = "none"
        /\ sent = <<>>
        /\ session \in {"Idle", "Failed"}
        /\ tick_buffer = [t \in {} |-> EmptyRound]
        /\ batch_meta = "None"

---------------------------------------------------------------------------
\* the names of the commands written so far
SentNames == [k \in 1..Len(sent) |-> sent[k].cmd]

(* C22: after the port opens the client writes exactly three commands,     *)
(* each once and in the order @HELLO, @PARAM, @GET; no inbound line is     *)
(* read before or between them, and the reader loop is entered right after *)
(* @GET is written, whatever the Master answers.                           *)
C22_HandshakeOrder ==
    [][/\ sent' # sent =>
             /\ Len(sent') = Len(sent) + 1
             /\ SubSeq(sent', 1, Len(sent)) = sent
             /\ SentNames' = SubSeq(<<"@HELLO", "@PARAM", "@GET">>, 1, Len(sent'))
             /\ ser = "open"
       /\ Len(sent) < 3 => (data' = data /\ batch_meta' = batch_meta)
       /\ (Len(sent) < 3 /\ Len(sent') = 3) => session' = "Streaming"
       /\ session' = "Streaming" => SentNames' = <<"@HELLO", "@PARAM", "@GET">>]_vars

\* The three commands are written and the loop waits for its first line
C22_Witness ==
    /\ session = "Streaming"
    /\ SentNames = <<"@HELLO", "@PARAM", "@GET">>
    /\ tick_buffer = [t \in {} |-> EmptyRound]
    /\ batch_meta = "None"

---------------------------------------------------------------------------
(* The typed parameters: each of the seven values as lines 174-181 leave   *)
(* it, below, inside or above its range, with the default numbers of       *)
(* slaves and bits and a stream without Data lines.                        *)

\* what may be typed for a value of range lo..hi and default dflt
Typed(lo, dflt, hi) == {lo - InputExcess, dflt, hi + InputExcess}

InitParams ==
    /\ WikiIdle
    /\ NUM_SLAVES = DEFAULT_NUM_SLAVES
    /\ BITS_PER_SLAVE = DEFAULT_BITS_PER_SLAVE
    /\ PARAM_T \in Typed(T_MIN, DEFAULT_PARAM_T, T_MAX) \cup {DEFAULT_PARAM_T + TypedMillis}
    /\ PARAM_B \in Typed(B_MIN, DEFAULT_PARAM_B, B_MAX)
    /\ PARAM_KP \in Typed(KP_MIN, DEFAULT_PARAM_KP, KP_MAX)
    /\ PARAM_M \in Typed(M_MIN, DEFAULT_PARAM_M, M_MAX)
    /\ BATCH_K \in Typed(K_MIN, DEFAULT_BATCH_K, K_MAX)
    /\ BATCH_STRIDE \in Typed(STRIDE_MIN, DEFAULT_BATCH_STRIDE, STRIDE_MAX)
    /\ BATCH_BURN \in Typed(BURN_MIN, DEFAULT_BATCH_BURN, BURN_MAX)
    /\ session = "Idle"
    /\ ser = "none"
    /\ sent = <<>>
    /\ cause = "none"
    /\ since_rx = 0
    /\ since_line = 0
    /\ batch_meta = "None"
    /\ tick_buffer = [t \in {} |-> EmptyRound]
    /\ all_scores = <<>>
    /\ all_samples = <<>>
    /\ best_history = <<>>
    /\ best_score = BEST_SCORE_INIT
    /\ best_bits = <<None>>
    /\ best_tick = None

NextParams ==
    \/ OpenOk
    \/ OpenFail
    \/ Send
    \/ SendFail
    \/ ReadMeta
    \/ ReadDone
    \/ ReadInfo
    \/ ReadBadData
    \/ (since_rx < MaxGap /\ ReadEmpty)
    \/ Interrupt
    \/ ReadError
    \/ Close

SpecParams == InitParams /\ [][NextParams]_vars

\* x if it lies in lo..hi, else the bound nearest to x
Nearest(x, lo, hi) == IF x < lo THEN lo ELSE IF x > hi THEN hi ELSE x

\* the integer values of the commands written so far are the typed values
\* moved to the nearest bound of their ranges
IntValuesClamped ==
    \A k \in 1..Len(sent) :
       /\ sent[k].cmd = "@PARAM" =>
             /\ sent[k].B = Nearest(PARAM_B, -127, 127)
             /\ sent[k].K = Nearest(PARAM_KP, 0, 255)
             /\ sent[k].M = Nearest(PARAM_M, 0, 255)
       /\ sent[k].cmd = "@GET" =>
             /\ sent[k].K = Nearest(BATCH_K, 1, 2000)
             /\ sent[k].STRIDE = Nearest(BATCH_STRIDE, 1, 1000)
             /\ sent[k].BURN = Nearest(BATCH_BURN, 0, 5000)

(* C23, as claimed: every value of the commands lies in its range (@PARAM  *)
(* N in [0,1], B in [-127,127], K and M in [0,255]; @GET K in [1,2000],    *)
(* STRIDE in [1,1000], BURN in [0,5000]); a typed value inside its range   *)
(* is sent unchanged and one outside is replaced by the nearest bound.     *)
(* N is in hundredths in the command and in thousandths as typed.          *)
C23_ValuesClampedUnchanged ==
    /\ IntValuesClamped
    /\ \A k \in 1..Len(sent) :
          sent[k].cmd = "@PARAM" => 10 * sent[k].N = Nearest(PARAM_T, 0, 1000)

(* C23, amended: as claimed for B, K, M and the three @GET values; N lies  *)
(* in [0,1], a T outside [0,1] is sent as the nearest bound, and a T       *)
(* inside is sent rounded to two decimals (within 0.005 of what was typed, *)
(* unchanged when it has no more than two decimals).                       *)
C23_ValuesClampedRounded ==
    /\ IntValuesClamped
    /\ \A k \in 1..Len(sent) :
          sent[k].cmd = "@PARAM" =>
             LET t == Nearest(PARAM_T, 0, 1000)
                 n == sent[k].N
             IN /\ 0 <= n /\ n <= 100
                /\ 10 * n - t <= 5
                /\ t - 10 * n <= 5
                /\ t % 10 = 0 => 10 * n = t

\* B typed below and K typed above their ranges, T typed with three
\* decimals: the commands carry -127, 2000 and 0.20
C23_Witness ==
    /\ Len(sent) = 3
    /\ PARAM_B < -127 /\ sent[2].B = -127
    /\ BATCH_K > 2000 /\ sent[3].K = 2000
    /\ PARAM_T = 204 /\ sent[2].N = 20

---------------------------------------------------------------------------
(* C24: for every valid configuration (NUM_SLAVES >= 1, BITS_PER_SLAVE >=  *)
(* 1) every edge built before the session starts joins two different       *)
(* nodes, both in [0, n_bits).                                             *)
C24_EdgesJoinDistinctNodes ==
    (NUM_SLAVES >= 1 /\ BITS_PER_SLAVE >= 1) =>
        \A k \in 1..Len(edges) :
           /\ edges[k][1] # edges[k][2]
           /\ edges[k][1] \in 0..(n_bits - 1)
           /\ edges[k][2] \in 0..(n_bits - 1)

---------------------------------------------------------------------------
\* the place of a state in the order Idle, Connecting, Handshaking,
\* Streaming, Draining, Closed (the model passes through Connecting inside
\* the steps OpenOk and OpenFail)
StateOrder == <<"Idle", "Connecting", "Handshaking", "Streaming", "Draining", "Closed">>

Rank(state) == CHOOSE k \in 1..Len(StateOrder) : StateOrder[k] = state

Ordered(state) == \E k \in 1..Len(StateOrder) : StateOrder[k] = state

(* C25: the session moves only forward in the order Idle, Connecting,      *)
(* Handshaking, Streaming, Draining, Closed, or from a non-terminal state  *)
(* to Failed; Closed and Failed are terminal; once the reader loop is left *)
(* no line is consumed and the history and the best result never change.   *)
C25_ForwardOnly ==
    [][/\ session' # session =>
             \/ /\ Ordered(session) /\ Ordered(session')
                /\ Rank(session) < Rank(session')
             \/ /\ session' = "Failed"
                /\ session \notin {"Closed", "Failed"}
       /\ LoopLeft =>
             /\ data' = data
             /\ batch_meta' = batch_meta
             /\ since_rx' = since_rx]_vars

---------------------------------------------------------------------------
\* the causes a report can name; the last three are transport failures
ReportCauses == {"done", "timeout", "interrupt", "open_error", "write_error", "read_error"}

(* C26: every session that ends records which of the four causes ended it  *)
(* (@DONE, inactivity timeout, cancellation, transport failure): the step  *)
(* that leaves the reader loop records the event that it is, and the       *)
(* session ends in a state that reports, with that cause.                  *)
C26_CauseRecorded ==
    [][/\ (session = "Streaming" /\ session' # "Streaming") =>
             /\ ReadDone => cause' = "done"
             /\ ReadEmpty => cause' = "timeout"
             /\ Interrupt => cause' = "interrupt"
             /\ ReadError => cause' = "read_error"
       /\ (~Terminal /\ Terminal') =>
             /\ session' \in {"Closed", "Failed"}
             /\ cause' \in ReportCauses
             /\ cause # "none" => cause' = cause]_vars


---------------------------------------------------------------------------
(* C27: a Round is destroyed on completion: right after the ingest that    *)
(* completes and scores tick t, t is no longer in the tick buffer, so the  *)
(* buffer reached by a scoring ingest holds no complete Round.             *)
C27_CompletedRoundRemoved ==
    [][\A t \in Ticks, s \in Sidxs, b \in Bmasks :
          (ReadData(t, s, b) /\ AppendedFor(t)) =>
             /\ t \notin DOMAIN tick_buffer'
             /\ \A u \in DOMAIN tick_buffer' : ~RoundFull(tick_buffer'[u])]_vars


---------------------------------------------------------------------------
\* the ticks the flood stream may report for in the current state
FloodOffered == FloodFresh \cup FloodLate

(* C28: Rounds are evicted only when the cap is exceeded: in every step in *)
(* which a tick that is not in the history disappears from the tick        *)
(* buffer, the step is the ingest of a Data line and the buffer, once the  *)
(* sample of that line is stored, held more than CLEANUP_CAP Rounds.       *)
C28_EvictionOnlyAboveCap ==
    [][/\ \A t \in FloodOffered, s \in 0..1, b \in 0..1 :
             ReadData(t, s, b) =>
                LET buf1 == StoreSample(tick_buffer, t, s, b)
                IN (\E u \in DOMAIN buf1 :
                       u \notin DOMAIN tick_buffer' /\ ~Scored(u)')
                   => Cardinality(DOMAIN buf1) > CLEANUP_CAP
       /\ (\E u \in DOMAIN tick_buffer : u \notin DOMAIN tick_buffer')
             => \E t \in FloodOffered, s \in 0..1, b \in 0..1 : ReadData(t, s, b)]_vars

\* Two slaves: the low ticks were evicted, at most one of them scored, and
\* only the CLEANUP_KEEP highest ticks are still buffered
C28_Witness ==
    /\ NUM_SLAVES = 2
    /\ Cardinality(DOMAIN tick_buffer) = CLEANUP_KEEP
    /\ Oldest(tick_buffer) > CLEANUP_CAP - CLEANUP_KEEP
    /\ Len(all_samples) = 1


---------------------------------------------------------------------------
(* C29: every non-empty line that is neither a @BATCH line, a @DONE line   *)
(* nor a Data line is displayed unmodified as a message and changes no     *)
(* data, also when it starts with "@" followed by an unknown marker.       *)
C29_OtherLinesDisplayed ==
    [][\A line \in TextLines :
          ReadText(line) =>
             /\ Printed(line) = <<"[MSG]", line>>
             /\ UNCHANGED <<data, batch_meta, session>>]_vars


---------------------------------------------------------------------------
(* The repeat stream: one Round, tick 0; every slave reports first with    *)
(* bmask RepeatFirst and then, any number of lines later, once more with a *)
(* different bmask.                                                        *)

RepeatFirst == MaxRoundBmask
RepeatLater == 0..(MaxRoundBmask - 1)

\* the bmasks slave s may report next
RepeatOffered(s) ==
    IF 0 \notin DOMAIN tick_buffer \/ s \notin DOMAIN tick_buffer[0] THEN {RepeatFirst}
    ELSE IF tick_buffer[0][s] = RepeatFirst THEN RepeatLater
    ELSE {}

NextRepeat ==
    \/ OpenOk
    \/ OpenFail
    \/ Send
    \/ SendFail
    \/ ReadMeta
    \/ ReadDone
    \/ ReadInfo
    \/ ReadBadData
    \/ \E s \in RoundSidxs : \E b \in RepeatOffered(s) :
          Len(all_samples) < MaxHist /\ ReadData(0, s, b)
    \/ (since_rx < MaxGap /\ ReadEmpty)
    \/ Interrupt
    \/ ReadError
    \/ Close

SpecRepeat == Init /\ [][NextRepeat]_vars

(* C30: last write wins per worker per tick: a Data line for worker s      *)
(* leaves the Round with exactly one entry for s, the bmask of that line,  *)
(* and every other entry as it was; when the line completes the Round, the *)
(* bits of worker s in the recorded vector and the score are those of this *)
(* line, not of an earlier line of the same worker.                        *)
C30_LastWriteWins ==
    [][\A s \in RoundSidxs, b \in RoundBmasks :
          ReadData(0, s, b) =>
             LET before == IF 0 \in DOMAIN tick_buffer THEN tick_buffer[0] ELSE EmptyRound
                 after == tick_buffer'[0]
                 merged == [w \in (DOMAIN before) \cup {s} |->
                               IF w = s THEN b ELSE before[w]]
             IN /\ DOMAIN after = (DOMAIN before) \cup {s}
                /\ after[s] = b
                /\ \A w \in (DOMAIN before) \ {s} : after[w] = before[w]
                /\ AppendedFor(0) =>
                      LET sample == all_samples'[Len(all_samples')]
                      IN /\ InRange(s) =>
                               \A i \in 0..(BITS_PER_SLAVE - 1) :
                                  sample.bits[s * BITS_PER_SLAVE + i + 1] =
                                     (IF BitAt(b, i) = 1 THEN "1" ELSE "0")
                         /\ sample.score = maxcut_score(ExpectedVec(merged), edges)]_vars

\* Two workers of two bits: worker 0 reported RepeatFirst and then 1, worker
\* 1 then completed the Round, and the one recorded vector carries worker 0's
\* later bmask
C30_Witness ==
    /\ NUM_SLAVES = 2 /\ BITS_PER_SLAVE = 2
    /\ 0 \in DOMAIN tick_buffer
    /\ tick_buffer[0] = (0 :> 1) @@ (1 :> RepeatFirst)
    /\ Len(all_samples) = 1
    /\ all_samples[1].bits = <<"1", "0", "1", "1">>


---------------------------------------------------------------------------
\* The Round of tick t in buf, cut to the slave indexes in [0, NUM_SLAVES)
InRangePart(buf, t) ==
    IF t \in DOMAIN buf
    THEN [w \in {v \in DOMAIN buf[t] : InRange(v)} |-> buf[t][w]]
    ELSE EmptyRound

(* C31: an out-of-range slave index does not block progress: a Data line   *)
(* appends a sample for its tick exactly when its slave index is in range  *)
(* and it delivers the last missing in-range worker of the tick, so the    *)
(* tick is scored once; the sample is built from the in-range workers      *)
(* only, and a line with an out-of-range index never appends a sample.     *)
C31_OutOfRangeDoesNotBlock ==
    [][\A t \in Ticks, s \in Sidxs, b \in Bmasks :
          ReadData(t, s, b) =>
             LET after == StoreSample(tick_buffer, t, s, b)
             IN /\ AppendedFor(t) <=>
                      /\ InRange(s)
                      /\ ~CompleteIn(tick_buffer, t)
                      /\ CompleteIn(after, t)
                /\ ~AppendedFor(t) => all_samples' = all_samples
                /\ AppendedFor(t) =>
                      all_samples'[Len(all_samples')].bits =
                         bitstr_of(ExpectedVec(InRangePart(after, t)))]_vars


---------------------------------------------------------------------------
(* The Wikipedia pipeline, wikipedia_processor.py and ejemplo_uso.py: a    *)
(* caller hands a list of titles to process_articles and goes on with what *)
(* it returns. Texts and TF-IDF values are left out: an article stands for *)
(* its title and the matrix for its number of rows.                        *)

MaxTitles == 2     \* the longest list of titles a caller passes
TitlePool == {"Qubit", "Mecanica cuantica", "Xyzzy"}

\* bool(x) of a dict or a list: it holds at least one entry
Truthy(x) == DOMAIN x # {}

\* the value of data['tfidf_matrix'] when no article was fetched
NoneMatrix == [type |-> "NoneType"]

\* lines 206-224: the titles whose page exists, in the order given
fetch_articles(ts) == SelectSeq(ts, LAMBDA t : t \in existing)

\* lines 226-290, as far as the callers use it
tokenize_and_vectorize(articles) ==
    [tfidf_matrix |-> [type |-> "ndarray", rows |-> Len(articles)],
     feature_names |-> <<"term">>,
     metadata |-> [n_articles |-> Len(articles), n_features |-> 1,
                   article_titles |-> articles]]

\* lines 292-336
process_articles(ts) ==
    LET articles == fetch_articles(ts)
        v == tokenize_and_vectorize(articles)
    IN IF ~Truthy(articles)
       THEN [articles |-> <<>>, tfidf_matrix |-> NoneMatrix, feature_names |-> <<>>,
             metadata |-> [n_articles |-> 0, n_features |-> 0]]
       ELSE [articles |-> articles, tfidf_matrix |-> v.tfidf_matrix,
             feature_names |-> v.feature_names, metadata |-> v.metadata]

\* reading .shape, or indexing, of the matrix raises when it is None
MatrixRaises == result.tfidf_matrix = NoneMatrix

InitWiki ==
    /\ NUM_SLAVES = DEFAULT_NUM_SLAVES
    /\ BITS_PER_SLAVE = DEFAULT_BITS_PER_SLAVE
    /\ DefaultParams
    /\ session = "Idle"
    /\ ser = "none"
    /\ sent = <<>>
    /\ cause = "none"
    /\ since_rx = 0
    /\ since_line = 0
    /\ batch_meta = "None"
    /\ tick_buffer = [t \in {} |-> EmptyRound]
    /\ all_scores = <<>>
    /\ all_samples = <<>>
    /\ best_history = <<>>
    /\ best_score = BEST_SCORE_INIT
    /\ best_bits = <<None>>
    /\ best_tick = None
    /\ titles \in UNION {[1..n -> TitlePool] : n \in 1..MaxTitles}
    /\ existing \in SUBSET TitlePool
    /\ caller \in {"main", "ejemplo_simple"}
    /\ wiki_pc = "call"
    /\ result = <<>>
    /\ invoked = {}
    /\ guard_fired = FALSE

\* wikipedia_processor.py line 568, ejemplo_uso.py line 46
ProcessArticles ==
    /\ wiki_pc = "call"
    /\ result' = process_articles(titles)
    /\ wiki_pc' = "guard"
    /\ UNCHANGED <<titles, existing, caller, invoked, guard_fired, config, control, data>>

\* wikipedia_processor.py lines 570-572, ejemplo_uso.py lines 48-50:
\* if not data: report and return
Guard ==
    /\ wiki_pc = "guard"
    /\ IF ~Truthy(result)
       THEN guard_fired' = TRUE /\ wiki_pc' = "returned"
       ELSE guard_fired' = guard_fired /\ wiki_pc' = "show"
    /\ UNCHANGED <<titles, existing, caller, result, invoked, config, control, data>>

\* wikipedia_processor.py line 575: print_analysis(data), which reads
\* data['tfidf_matrix'].shape at line 475
PrintAnalysis ==
    /\ wiki_pc = "show"
    /\ caller = "main"
    /\ invoked' = invoked \cup {"print_analysis"}
    /\ wiki_pc' = IF MatrixRaises THEN "raised" ELSE "ask"
    /\ UNCHANGED <<titles, existing, caller, result, guard_fired, config, control, data>>

\* ejemplo_uso.py lines 53-56: the caller itself prints the shape
ShowResults ==
    /\ wiki_pc = "show"
    /\ caller = "ejemplo_simple"
    /\ wiki_pc' = IF MatrixRaises THEN "raised" ELSE "top"
    /\ UNCHANGED <<titles, existing, caller, result, invoked, guard_fired, config, control, data>>

\* wikipedia_processor.py lines 579-581: the user is asked whether to export
AskExport ==
    /\ wiki_pc = "ask"
    /\ \E yes \in BOOLEAN : wiki_pc' = IF yes THEN "export" ELSE "done"
    /\ UNCHANGED <<titles, existing, caller, result, invoked, guard_fired, config, control, data>>

\* wikipedia_processor.py line 582, ejemplo_uso.py line 69
ExportData ==
    /\ wiki_pc = "export"
    /\ invoked' = invoked \cup {"export_data"}
    /\ wiki_pc' = IF caller = "main" THEN "top" ELSE "done"
    /\ UNCHANGED <<titles, existing, caller, result, guard_fired, config, control, data>>

\* wikipedia_processor.py line 586, ejemplo_uso.py line 60
TopFeatures ==
    /\ wiki_pc = "top"
    /\ invoked' = invoked \cup {"get_top_features_per_article"}
    /\ wiki_pc' = IF caller = "main" THEN "done" ELSE "export"
    /\ UNCHANGED <<titles, existing, caller, result, guard_fired, config, control, data>>

NextWiki ==
    \/ ProcessArticles
    \/ Guard
    \/ PrintAnalysis
    \/ ShowResults
    \/ AskExport
    \/ ExportData
    \/ TopFeatures

SpecWiki == InitWiki /\ [][NextWiki]_vars

(* C32: when none of the requested titles resolves to an existing article, *)
(* the caller's "if not data" guard fires once process_articles has        *)
(* returned, and print_analysis, get_top_features_per_article and          *)
(* export_data are never invoked on the result.                            *)
C32_EmptyResultStopsCaller ==
    (fetch_articles(titles) = <<>> /\ wiki_pc \notin {"idle", "call"}) =>
       /\ invoked = {}
       /\ wiki_pc # "guard" => guard_fired /\ wiki_pc = "returned"


---------------------------------------------------------------------------
(* C33: whenever the reader loop is between two iterations, the score      *)
(* list, the sample list and the best-so-far trace have the same length,   *)
(* the trace never decreases, and, when a score was recorded, the last     *)
(* value of the trace is the best score, which is the maximum of the score *)
(* list.                                                                   *)
C33_HistoriesAgree ==
    session = "Streaming" =>
        /\ Len(all_scores) = Len(all_samples)
        /\ Len(all_samples) = Len(best_history)
        /\ \A i \in 1..Len(best_history), j \in 1..Len(best_history) :
              i <= j => best_history[i][2] <= best_history[j][2]
        /\ Len(all_scores) > 0 =>
              /\ best_history[Len(best_history)][2] = best_score
              /\ best_score = MaxOf(all_scores)

\* Three Rounds were scored: the second raised the best score and the third
\* scored below it, and the loop is still reading
C33_Witness ==
    /\ session = "Streaming"
    /\ Len(all_scores) = 3
    /\ all_scores[1] < all_scores[2]
    /\ all_scores[3] < all_scores[2]
    /\ best_history[3][2] = all_scores[2]


---------------------------------------------------------------------------
(* C34: on the unit-weight ring over n_bits nodes, every score in the      *)
(* history, and the best score once a Round was scored, is an even integer *)
(* between 0 and n_bits inclusive.                                         *)
C34_ScoresEvenAndBounded ==
    RING_WEIGHT = 1 =>
        /\ \A i \in 1..Len(all_scores) :
              /\ all_scores[i] % 2 = 0
              /\ 0 <= all_scores[i] /\ all_scores[i] <= n_bits
        /\ \A i \in 1..Len(all_samples) : all_samples[i].score = all_scores[i]
        /\ Len(all_scores) > 0 =>
              /\ best_score % 2 = 0
              /\ 0 <= best_score /\ best_score <= n_bits

\* A ring of five nodes: the Round was scored 4, the most an odd ring allows
C34_Witness ==
    /\ n_bits = 5
    /\ Len(all_scores) = 1
    /\ all_scores[1] = 4
    /\ best_score = 4

===========================================================================
